---- MODULE Spec2Model ----
(***************************************************************************)
(* Model of server/scripts/enumerate-metasploit-modules.py.                *)
(*                                                                         *)
(* Python str values are TLC strings; Len, SubSeq and \o act on them the   *)
(* way len(), slicing and + act on str.  The str methods the script uses   *)
(* (strip, split, startswith, in, lower, replace, re.search) are operators *)
(* computed character by character.                                        *)
(***************************************************************************)
EXTENDS Integers, Sequences, FiniteSets, TLC

(***************************************************************************)
(* Python str primitives                                                   *)
(***************************************************************************)

\* s[i-1] in Python terms: the i-th character, as a one-character string.
CharAt(s, i) == SubSeq(s, i, i)

\* c.isspace() for the characters of the modelled alphabet.
IsSpace(c) == c \in {" ", "\t", "\n", "\r"}

\* c matches the regex class \w.
IsWord(c) ==
    c \in { "a","b","c","d","e","f","g","h","i","j","k","l","m",
            "n","o","p","q","r","s","t","u","v","w","x","y","z",
            "A","B","C","D","E","F","G","H","I","J","K","L","M",
            "N","O","P","Q","R","S","T","U","V","W","X","Y","Z",
            "0","1","2","3","4","5","6","7","8","9","_" }

\* c.lower() of one character.
LowerChar(c) ==
    CASE c = "A" -> "a" [] c = "B" -> "b" [] c = "C" -> "c" [] c = "D" -> "d"
      [] c = "E" -> "e" [] c = "F" -> "f" [] c = "G" -> "g" [] c = "H" -> "h"
      [] c = "I" -> "i" [] c = "J" -> "j" [] c = "K" -> "k" [] c = "L" -> "l"
      [] c = "M" -> "m" [] c = "N" -> "n" [] c = "O" -> "o" [] c = "P" -> "p"
      [] c = "Q" -> "q" [] c = "R" -> "r" [] c = "S" -> "s" [] c = "T" -> "t"
      [] c = "U" -> "u" [] c = "V" -> "v" [] c = "W" -> "w" [] c = "X" -> "x"
      [] c = "Y" -> "y" [] c = "Z" -> "z" [] OTHER -> c

\* s.lower(): the lowercased halves of s, joined.
RECURSIVE Lower(_)
Lower(s) ==
    IF Len(s) = 0 THEN ""
    ELSE IF Len(s) = 1 THEN LowerChar(s)
    ELSE Lower(SubSeq(s, 1, Len(s) \div 2))
         \o Lower(SubSeq(s, (Len(s) \div 2) + 1, Len(s)))

\* s.startswith(p)
StartsWith(s, p) == Len(p) <= Len(s) /\ SubSeq(s, 1, Len(p)) = p

\* sub in s
Contains(s, sub) ==
    \E i \in 0..(Len(s) - Len(sub)) : SubSeq(s, i + 1, i + Len(sub)) = sub

\* The least element of a non-empty set of numbers.
Least(S) == CHOOSE i \in S : \A j \in S : i <= j

\* The greatest element of a non-empty set of numbers.
Greatest(S) == CHOOSE i \in S : \A j \in S : j <= i

\* s.find(sub, i - 1) + 1: the 1-based position of the first occurrence of
\* sub at or after position i, 0 if none.
FindFrom(s, sub, i) ==
    LET hits == { j \in i..(Len(s) - Len(sub) + 1) :
                    SubSeq(s, j, j + Len(sub) - 1) = sub }
    IN  IF hits = {} THEN 0 ELSE Least(hits)

Find(s, sub) == FindFrom(s, sub, 1)

\* The position of the first character at or after position i for which
\* IsSpace(c) = space holds, Len(s) + 1 if there is none.
ScanSpace(s, i, space) ==
    LET hits == { j \in i..Len(s) : IsSpace(CharAt(s, j)) = space }
    IN  IF hits = {} THEN Len(s) + 1 ELSE Least(hits)

\* s.strip()
Strip(s) ==
    LET keep == { j \in 1..Len(s) : ~IsSpace(CharAt(s, j)) }
    IN  IF keep = {} THEN "" ELSE SubSeq(s, Least(keep), Greatest(keep))

\* The position of the first occurrence of character c at or after position
\* i, Len(s) + 1 if there is none.
ScanChar(s, c, i) ==
    LET hits == { j \in i..Len(s) : CharAt(s, j) = c }
    IN  IF hits = {} THEN Len(s) + 1 ELSE Least(hits)

\* The pieces of s[lo..hi] between the occurrences of the character sep,
\* empty pieces included: the pieces before a separator near the middle of
\* the range, then the pieces after it.
RECURSIVE SplitRange(_, _, _, _)
SplitRange(s, sep, lo, hi) ==
    LET seps == { j \in lo..hi : CharAt(s, j) = sep }
        after == { j \in seps : j >= (lo + hi) \div 2 }
        m == IF after # {} THEN Least(after) ELSE Greatest(seps)
    IN  IF seps = {} THEN << SubSeq(s, lo, hi) >>
        ELSE SplitRange(s, sep, lo, m - 1) \o SplitRange(s, sep, m + 1, hi)

\* s.split(sep) for a one-character sep.
Split(s, sep) == SplitRange(s, sep, 1, Len(s))

\* s.split(): the maximal runs of non-whitespace characters.
RECURSIVE SplitWsFrom(_, _)
SplitWsFrom(s, start) ==
    LET b == ScanSpace(s, start, FALSE)
    IN  IF b > Len(s) THEN << >>
        ELSE LET e == ScanSpace(s, b, TRUE)
             IN  << SubSeq(s, b, e - 1) >> \o SplitWsFrom(s, e)

SplitWs(s) == SplitWsFrom(s, 1)

\* s.replace(old, ""): every non-overlapping occurrence of old removed,
\* scanning left to right.
RECURSIVE Remove(_, _)
Remove(s, old) ==
    LET p == Find(s, old)
    IN  IF p = 0 THEN s
        ELSE SubSeq(s, 1, p - 1) \o Remove(SubSeq(s, p + Len(old), Len(s)), old)


(***************************************************************************)
(* Module-level constants of the script                                    *)
(***************************************************************************)

TOP_TECHNOLOGIES ==
    << "windows", "linux", "unix", "macos", "osx",
       "apache", "iis", "php", "java", "python",
       "ssh", "smb", "rdp", "http", "https" >>

TOP_SERVICES ==
    << "http", "https", "smb", "ssh", "ftp", "telnet", "smtp", "pop3", "imap",
       "dns", "snmp", "ldap", "mysql", "mssql", "postgres", "oracle", "mongodb",
       "redis", "memcached", "vnc", "rdp", "nfs", "rsync", "rpc", "tftp",
       "sip", "rtsp", "socks", "proxy", "ssl", "tls", "ipsec", "vpn",
       "docker", "kubernetes", "jenkins", "gitlab", "jboss", "tomcat", "weblogic",
       "elasticsearch", "kibana", "splunk", "grafana", "prometheus", "netbios",
       "kerberos", "winrm", "wmi", "powershell" >>

\* The slice bound of filter_auxiliary: filtered[:50] if len(filtered) > 50.
AUX_LIMIT == 50

\* module_types of enumerate_all_modules, in loop order.
module_types ==
    << "encoder", "evasion", "nop", "post", "exploit", "payload", "auxiliary" >>

(***************************************************************************)
(* run_msfconsole_command                                                  *)
(***************************************************************************)

\* What subprocess.run can do with one command: complete with some stdout,
\* raise TimeoutExpired, or raise another exception.
OutcomeKinds == { "completed", "timeout", "error" }

\* run_msfconsole_command changed to hand back what the process had printed
\* also when it timed out or failed.
run_msfconsole_command_keeps_output(kind, stdout) == stdout

\* The value run_msfconsole_command returns: result.stdout when the process
\* completed, "" from either except branch.
run_msfconsole_command(kind, stdout) ==
    IF kind = "completed" THEN stdout ELSE ""

(***************************************************************************)
(* parse_module_list                                                       *)
(***************************************************************************)

\* ParseLine without the test '/' in parts[0].
ParseLineAnyToken(modules, raw, module_type) ==
    LET line == Strip(raw)
    IN  IF line = "" \/ StartsWith(line, "=") \/ StartsWith(line, "[")
        THEN modules
        ELSE IF \/ Contains(line, "Matching Modules")
                \/ Contains(line, "Name")
                \/ Contains(line, "----")
        THEN modules
        ELSE LET parts == SplitWs(line)
             IN  IF Len(parts) > 0
                 THEN LET module_path == parts[1]
                      IN  IF StartsWith(module_path, module_type \o "/")
                          THEN Append(modules,
                                      SubSeq(module_path, Len(module_type) + 2,
                                             Len(module_path)))
                          ELSE Append(modules, module_path)
                 ELSE modules

\* ParseLine that keeps only the rows of the queried type: a first token
\* without the '<module_type>/' prefix is skipped.
ParseLineOwnTypeOnly(modules, raw, module_type) ==
    LET line == Strip(raw)
    IN  IF line = "" \/ StartsWith(line, "=") \/ StartsWith(line, "[")
        THEN modules
        ELSE IF \/ Contains(line, "Matching Modules")
                \/ Contains(line, "Name")
                \/ Contains(line, "----")
        THEN modules
        ELSE LET parts == SplitWs(line)
             IN  IF /\ Len(parts) > 0
                    /\ Contains(parts[1], "/")
                    /\ StartsWith(parts[1], module_type \o "/")
                 THEN Append(modules,
                             SubSeq(parts[1], Len(module_type) + 2,
                                    Len(parts[1])))
                 ELSE modules

\* One iteration of the loop over lines: the modules list after raw is seen.
ParseLine(modules, raw, module_type) ==
    LET line == Strip(raw)
    IN  IF line = "" \/ StartsWith(line, "=") \/ StartsWith(line, "[")
        THEN modules
        ELSE IF \/ Contains(line, "Matching Modules")
                \/ Contains(line, "Name")
                \/ Contains(line, "----")
        THEN modules
        ELSE LET parts == SplitWs(line)
             IN  IF Len(parts) > 0 /\ Contains(parts[1], "/")
                 THEN LET module_path == parts[1]
                      IN  IF StartsWith(module_path, module_type \o "/")
                          THEN Append(modules,
                                      SubSeq(module_path, Len(module_type) + 2,
                                             Len(module_path)))
                          ELSE Append(modules, module_path)
                 ELSE modules

\* The loop of lines 59-74 over lines[lo..hi], entered with modules: the
\* iterations of the first half of the range, then those of the second.
\* (The test first = first makes TLC compute first before going on.)
RECURSIVE ParseLines(_, _, _, _, _)
ParseLines(lines, lo, hi, modules, module_type) ==
    IF lo > hi THEN modules
    ELSE IF lo = hi THEN ParseLine(modules, lines[lo], module_type)
    ELSE LET first == ParseLines(lines, lo, (lo + hi) \div 2, modules,
                                 module_type)
         IN  IF first = first
             THEN ParseLines(lines, ((lo + hi) \div 2) + 1, hi, first,
                             module_type)
             ELSE first

parse_module_list(output, module_type) ==
    LET lines == Split(output, "\n")
    IN  ParseLines(lines, 1, Len(lines), << >>, module_type)

(***************************************************************************)
(* filter_exploits_payloads, filter_auxiliary                              *)
(***************************************************************************)

\* any(k in module_lower for k in keywords)
AnyKeyword(module_lower, keywords) ==
    \E k \in 1..Len(keywords) : Contains(module_lower, keywords[k])

\* One iteration of the filter loops.
FilterOne(filtered, module, keywords) ==
    IF AnyKeyword(Lower(module), keywords) THEN Append(filtered, module)
    ELSE filtered

\* The filter loop over modules[lo..hi], entered with filtered: the
\* iterations of the first half of the range, then those of the second.
RECURSIVE FilterLoop(_, _, _, _, _)
FilterLoop(modules, lo, hi, filtered, keywords) ==
    IF lo > hi THEN filtered
    ELSE IF lo = hi THEN FilterOne(filtered, modules[lo], keywords)
    ELSE LET first == FilterLoop(modules, lo, (lo + hi) \div 2, filtered,
                                 keywords)
         IN  IF first = first
             THEN FilterLoop(modules, ((lo + hi) \div 2) + 1, hi, first,
                             keywords)
             ELSE first

\* filter_exploits_payloads with the [:50] slice of filter_auxiliary.
filter_exploits_payloads_capped(modules) ==
    LET filtered == FilterLoop(modules, 1, Len(modules), << >>, TOP_TECHNOLOGIES)
    IN  IF Len(filtered) > AUX_LIMIT THEN SubSeq(filtered, 1, AUX_LIMIT)
        ELSE filtered

filter_exploits_payloads(modules) ==
    FilterLoop(modules, 1, Len(modules), << >>, TOP_TECHNOLOGIES)

\* filter_auxiliary with the slice taken of the input instead of the
\* filtered list.
filter_auxiliary_slices_input(modules) ==
    LET head == IF Len(modules) > AUX_LIMIT
                THEN SubSeq(modules, 1, AUX_LIMIT) ELSE modules
    IN  FilterLoop(head, 1, Len(head), << >>, TOP_SERVICES)

filter_auxiliary(modules) ==
    LET filtered == FilterLoop(modules, 1, Len(modules), << >>, TOP_SERVICES)
    IN  IF Len(filtered) > AUX_LIMIT THEN SubSeq(filtered, 1, AUX_LIMIT)
        ELSE filtered

(***************************************************************************)
(* organize_modules_by_category                                            *)
(***************************************************************************)

\* organized[category].append(module) on a defaultdict(list); a dict is a
\* function from its keys.
DictAppend(organized, category, module) ==
    IF category \in DOMAIN organized
    THEN [organized EXCEPT ![category] = Append(@, module)]
    ELSE [c \in DOMAIN organized \cup {category} |->
            IF c = category THEN << module >> ELSE organized[c]]

\* The empty dict.
EmptyDict == [c \in {} |-> << >>]

\* OrganizeOne without the 'other' branch: the category is always parts[0].
OrganizeOneNoOther(organized, module) ==
    DictAppend(organized, Split(module, "/")[1], module)

OrganizeOne(organized, module) ==
    LET parts == Split(module, "/")
    IN  IF Len(parts) > 1 THEN DictAppend(organized, parts[1], module)
        ELSE DictAppend(organized, "other", module)

\* The loop of lines 156-162 over modules[lo..hi], entered with organized:
\* the iterations of the first half of the range, then those of the second.
RECURSIVE OrganizeLoop(_, _, _, _)
OrganizeLoop(modules, lo, hi, organized) ==
    IF lo > hi THEN organized
    ELSE IF lo = hi THEN OrganizeOne(organized, modules[lo])
    ELSE LET first == OrganizeLoop(modules, lo, (lo + hi) \div 2, organized)
         IN  IF first = first
             THEN OrganizeLoop(modules, ((lo + hi) \div 2) + 1, hi, first)
             ELSE first

organize_modules_by_category(modules) ==
    OrganizeLoop(modules, 1, Len(modules), EmptyDict)

(***************************************************************************)
(* enumerate_all_modules: the body of the loop over module_types           *)
(***************************************************************************)

\* The result dict before the loop.
ResultInit ==
    [ metadata |-> [ generated_at |-> "None", total_modules |-> 0,
                     by_type |-> [t \in {} |-> 0] ],
      modules |-> [t \in {} |-> EmptyDict] ]

\* d[key] = value on a dict.
DictSet(d, key, value) ==
    [k \in DOMAIN d \cup {key} |-> IF k = key THEN value ELSE d[k]]

\* Lines 191-198: the filter chosen by module_type.
ApplyFilter(module_type, modules) ==
    IF module_type \in {"exploit", "payload"}
    THEN filter_exploits_payloads(modules)
    ELSE IF module_type = "auxiliary"
    THEN filter_auxiliary(modules)
    ELSE modules

\* EnumerateOne changed to count the list parse_module_list returned.
EnumerateOneCountsParsed(result, module_type, output) ==
    LET parsed == parse_module_list(output, module_type)
        modules == ApplyFilter(module_type, parsed)
        organized == organize_modules_by_category(modules)
    IN  [ parsed |-> parsed,
          modules |-> modules,
          result |->
            [ metadata |->
                [ generated_at |-> result.metadata.generated_at,
                  total_modules |-> result.metadata.total_modules + Len(parsed),
                  by_type |-> DictSet(result.metadata.by_type, module_type,
                                      Len(parsed)) ],
              modules |-> DictSet(result.modules, module_type, organized) ] ]

\* Lines 187-205 for one module_type, given the output of its search
\* command: the list as parsed, the list after filtering, and result after
\* the three assignments.
EnumerateOne(result, module_type, output) ==
    LET parsed == parse_module_list(output, module_type)
        modules == ApplyFilter(module_type, parsed)
        organized == organize_modules_by_category(modules)
    IN  [ parsed |-> parsed,
          modules |-> modules,
          result |->
            [ metadata |->
                [ generated_at |-> result.metadata.generated_at,
                  total_modules |-> result.metadata.total_modules + Len(modules),
                  by_type |-> DictSet(result.metadata.by_type, module_type,
                                      Len(modules)) ],
              modules |-> DictSet(result.modules, module_type, organized) ] ]

(***************************************************************************)
(* get_module_info                                                         *)
(***************************************************************************)

\* The info dict as initialised before the output is parsed.
InfoDefaults(module_path) ==
    [ path |-> module_path, name |-> "", description |-> "", rank |-> "",
      platform |-> << >>, targets |-> << >>, options |-> << >>,
      payloads |-> << >> ]

\* The end (exclusive) of the run of \w characters that starts at position i.
WordEnd(s, i) ==
    LET stops == { j \in i..Len(s) : ~IsWord(CharAt(s, j)) }
    IN  IF stops = {} THEN Len(s) + 1 ELSE Least(stops)

\* re.search(r'Rank:\s+(\w+)', line) tried at the occurrences of "Rank:" at
\* or after position from, leftmost first.  matched is FALSE for None.
RECURSIVE RankSearchFrom(_, _)
RankSearchFrom(line, from) ==
    LET p == FindFrom(line, "Rank:", from)
    IN  IF p = 0 THEN [matched |-> FALSE, group1 |-> ""]
        ELSE LET w == p + 5
                 q == ScanSpace(line, w, FALSE)
             IN  IF /\ w <= Len(line)
                    /\ IsSpace(CharAt(line, w))
                    /\ q <= Len(line)
                    /\ IsWord(CharAt(line, q))
                 THEN [matched |-> TRUE,
                       group1 |-> SubSeq(line, q, WordEnd(line, q) - 1)]
                 ELSE RankSearchFrom(line, p + 1)

RankSearch(line) == RankSearchFrom(line, 1)

\* [p.strip() for p in platforms if p.strip()]
RECURSIVE StripNonEmpty(_, _)
StripNonEmpty(pieces, i) ==
    IF i > Len(pieces) THEN << >>
    ELSE (IF Strip(pieces[i]) # "" THEN << Strip(pieces[i]) >> ELSE << >>)
         \o StripNonEmpty(pieces, i + 1)

\* PlatformPieces changed to take all the text after the first ':' of the
\* line (line.split(':', 1)[1]) instead of parts[1].
PlatformPiecesAfterFirstColon(line) ==
    LET c == Find(line, ":")
    IN  IF c = 0 THEN << >>
        ELSE StripNonEmpty(Split(Strip(SubSeq(line, c + 1, Len(line))), ","), 1)

\* The body of the platform branch: what info['platform'] is extended by.
PlatformPieces(line) ==
    LET parts == Split(line, ":")
    IN  IF Len(parts) > 1
        THEN StripNonEmpty(Split(Strip(parts[2]), ","), 1)
        ELSE << >>

\* InfoLine with the description branch taken whatever current_section is.
InfoLineAlwaysCapture(info, current_section, raw) ==
    LET line == Strip(raw)
        same == [info |-> info, current_section |-> current_section]
    IN  IF StartsWith(line, "Name:")
        THEN [same EXCEPT !.info.name = Strip(Remove(line, "Name:"))]
        ELSE IF Contains(line, "Description:")
        THEN [same EXCEPT !.current_section = "description"]
        ELSE IF line # "" /\ ~StartsWith(line, "Module")
        THEN [same EXCEPT !.info.description = line,
                          !.current_section = "None"]
        ELSE IF Contains(line, "Rank:")
        THEN LET rank_match == RankSearch(line)
             IN  IF rank_match.matched
                 THEN [same EXCEPT !.info.rank = Lower(rank_match.group1)]
                 ELSE same
        ELSE IF Contains(line, "Platform:") \/ Contains(line, "Available targets:")
        THEN [same EXCEPT !.info.platform = @ \o PlatformPieces(line)]
        ELSE same

\* InfoLine with the rank branch tested before the description capture.
InfoLineRankFirst(info, current_section, raw) ==
    LET line == Strip(raw)
        same == [info |-> info, current_section |-> current_section]
    IN  IF StartsWith(line, "Name:")
        THEN [same EXCEPT !.info.name = Strip(Remove(line, "Name:"))]
        ELSE IF Contains(line, "Description:")
        THEN [same EXCEPT !.current_section = "description"]
        ELSE IF Contains(line, "Rank:")
        THEN LET rank_match == RankSearch(line)
             IN  IF rank_match.matched
                 THEN [same EXCEPT !.info.rank = Lower(rank_match.group1)]
                 ELSE same
        ELSE IF /\ current_section = "description"
                /\ line # ""
                /\ ~StartsWith(line, "Module")
        THEN [same EXCEPT !.info.description = line,
                          !.current_section = "None"]
        ELSE IF Contains(line, "Platform:") \/ Contains(line, "Available targets:")
        THEN [same EXCEPT !.info.platform = @ \o PlatformPieces(line)]
        ELSE same

\* One iteration of the loop over the lines of the info output: the info
\* dict and current_section ("None" for None) after raw is seen.
InfoLine(info, current_section, raw) ==
    LET line == Strip(raw)
        same == [info |-> info, current_section |-> current_section]
    IN  IF StartsWith(line, "Name:")
        THEN [same EXCEPT !.info.name = Strip(Remove(line, "Name:"))]
        ELSE IF Contains(line, "Description:")
        THEN [same EXCEPT !.current_section = "description"]
        ELSE IF /\ current_section = "description"
                /\ line # ""
                /\ ~StartsWith(line, "Module")
        THEN [same EXCEPT !.info.description = line,
                          !.current_section = "None"]
        ELSE IF Contains(line, "Rank:")
        THEN LET rank_match == RankSearch(line)
             IN  IF rank_match.matched
                 THEN [same EXCEPT !.info.rank = Lower(rank_match.group1)]
                 ELSE same
        ELSE IF Contains(line, "Platform:") \/ Contains(line, "Available targets:")
        THEN [same EXCEPT !.info.platform = @ \o PlatformPieces(line)]
        ELSE same

(***************************************************************************)
(* State                                                                   *)
(***************************************************************************)

VARIABLES
    \* get_module_info: the text the console would print for the info
    \* command, the arguments, the command output, and the locals of the loop
    detail, info_type, info_path, info_output, info_lines, info_pos,
    info, current_section, info_pc,
    \* parse_module_list: the output argument, the module_type argument, the
    \* returned list
    listing, list_type, list_modules, list_pc,
    \* the filters and organize_modules_by_category: the modules argument,
    \* the number of steps that built it, the function called, its result
    filt_modules, filt_steps, filt_call, filt_result,
    \* enumerate_all_modules: what the console prints for each search
    \* command, the loop position, result, the commands issued, how each
    \* ended, and per type the local modules before and after filtering
    tool, drv_pos, drv_pc, result, invocations, outcomes,
    parsed_modules, filtered_modules

infoVars == << detail, info_type, info_path, info_output, info_lines,
               info_pos, info, current_section, info_pc >>

listVars == << listing, list_type, list_modules, list_pc >>

filtVars == << filt_modules, filt_steps, filt_call, filt_result >>

drvVars == << tool, drv_pos, drv_pc, result, invocations, outcomes,
              parsed_modules, filtered_modules >>

vars == << infoVars, listVars, filtVars, drvVars >>

\* The state of each part before it is used.
InfoIdle ==
    /\ detail = ""
    /\ info_type = "" /\ info_path = ""
    /\ info_output = "" /\ info_lines = << >> /\ info_pos = 0
    /\ info = InfoDefaults("")
    /\ current_section = "None"
    /\ info_pc = "idle"

ListIdle ==
    /\ listing = "" /\ list_type = "" /\ list_modules = << >>
    /\ list_pc = "idle"

FiltIdle ==
    /\ filt_modules = << >> /\ filt_steps = 0 /\ filt_call = "none"
    /\ filt_result = << >>

DrvIdle ==
    /\ drv_pos = 1 /\ drv_pc = "loop"
    /\ result = ResultInit
    /\ invocations = << >> /\ outcomes = << >>
    /\ parsed_modules = [t \in {} |-> << >>]
    /\ filtered_modules = [t \in {} |-> << >>]

(***************************************************************************)
(* get_module_info as a process: call, one step per line, return           *)
(***************************************************************************)

\* Bound: the number of lines of a detail text.
MaxDetailLines == 3

\* Lines a detail text is made of.
DetailLineSamples ==
    { "Name: Test Module",
      "Rank: Excellent",
      "Description:",
      "  A sample module.",
      "",
      "Module options (exploit/x):",
      "Platform: Windows, Linux",
      "Available targets: 0: Auto, , 1:Win",
      "Name: Description: Rank: Low Platform: Unix",
      "Privileged Rank:normal  Rank:  Good_1 Platform: BSD" }

\* (module_type, module_path) argument pairs.
InfoArgSamples ==
    { << "exploit", "windows/smb/ms17_010" >>, << "auxiliary", "scanner" >> }

InfoInit == InfoIdle /\ ListIdle /\ FiltIdle /\ DrvIdle /\ tool = << >>

\* The number of lines appended to detail so far.
DetailLineCount == Len(Split(detail, "\n")) - 1

\* The console's answer grows by one line (before the call).
AppendDetailLine ==
    /\ info_pc = "idle"
    /\ DetailLineCount < MaxDetailLines
    /\ \E l \in DetailLineSamples : detail' = detail \o l \o "\n"
    /\ UNCHANGED << info_type, info_path, info_output, info_lines, info_pos,
                    info, current_section, info_pc >>
    /\ UNCHANGED << listVars, filtVars, drvVars >>

\* Lines 81-97: run the info command, initialise info, split the output.
InfoCall ==
    /\ info_pc = "idle"
    /\ \E a \in InfoArgSamples, kind \in OutcomeKinds :
         LET out == run_msfconsole_command(kind, detail)
         IN  /\ info_type' = a[1]
             /\ info_path' = a[2]
             /\ info_output' = out
             /\ info_lines' = Split(out, "\n")
             /\ info' = InfoDefaults(a[2])
    /\ info_pos' = 1
    /\ current_section' = "None"
    /\ info_pc' = "loop"
    /\ UNCHANGED detail
    /\ UNCHANGED << listVars, filtVars, drvVars >>

\* Lines 99-125: one iteration of the loop.
InfoStep ==
    /\ info_pc = "loop"
    /\ info_pos <= Len(info_lines)
    /\ LET r == InfoLine(info, current_section, info_lines[info_pos])
       IN  /\ info' = r.info
           /\ current_section' = r.current_section
    /\ info_pos' = info_pos + 1
    /\ UNCHANGED << detail, info_type, info_path, info_output, info_lines,
                    info_pc >>
    /\ UNCHANGED << listVars, filtVars, drvVars >>

\* Line 127: return info.
InfoReturn ==
    /\ info_pc = "loop"
    /\ info_pos > Len(info_lines)
    /\ info_pc' = "returned"
    /\ UNCHANGED << detail, info_type, info_path, info_output, info_lines,
                    info_pos, info, current_section >>
    /\ UNCHANGED << listVars, filtVars, drvVars >>

InfoNext == AppendDetailLine \/ InfoCall \/ InfoStep \/ InfoReturn

SpecInfo == InfoInit /\ [][InfoNext]_vars

(***************************************************************************)
(* Properties of get_module_info (checked under SpecInfo)                  *)
(***************************************************************************)

\* The loop is about to process a line, and processes it in this step.
InfoStepping ==
    /\ info_pc = "loop"
    /\ info_pos <= Len(info_lines)
    /\ info_pos' = info_pos + 1

\* The line the loop is about to process, trimmed.
InfoLineNow == Strip(info_lines[info_pos])

\* No line of text sets a field: none starts with 'Name:' and none contains
\* 'Description:', 'Rank:', 'Platform:' or 'Available targets:'.
NoMarkers(text) ==
    \A i \in 1..Len(Split(text, "\n")) :
        LET l == Strip(Split(text, "\n")[i])
        IN  /\ ~StartsWith(l, "Name:")
            /\ ~Contains(l, "Description:")
            /\ ~Contains(l, "Rank:")
            /\ ~Contains(l, "Platform:")
            /\ ~Contains(l, "Available targets:")

\* C7: get_module_info returns a record for every detail text: the loop
\* never leaves the lines of the output and the function returns only after
\* every line was processed, the path is the identifier passed in, and for a text
\* without markers (the empty text of a failed command included) name,
\* description and rank are "" and the platform list is empty.
C7_AlwaysReturnsDefaults ==
    /\ info_pc = "loop" =>
         /\ info_pos \in 1..(Len(info_lines) + 1)
         /\ info.path = info_path
    /\ info_pc = "returned" =>
         /\ info_pos = Len(info_lines) + 1
         /\ info.path = info_path
         /\ NoMarkers(info_output) =>
              /\ info.name = ""
              /\ info.description = ""
              /\ info.rank = ""
              /\ info.platform = << >>

\* C7 witness: the function has returned for a non-empty text of several
\* lines that holds no marker, and for that text the record is the default.
C7_Witness ==
    /\ info_pc = "returned"
    /\ Len(info_lines) > 2
    /\ \E i \in 1..Len(info_lines) : Strip(info_lines[i]) # ""
    /\ NoMarkers(info_output)
    /\ info = InfoDefaults(info_path)

\* A line that the description capture takes: non-empty, not starting with
\* 'Module' or 'Name:', not containing 'Description:'.
Capturable(l) ==
    /\ l # ""
    /\ ~StartsWith(l, "Module")
    /\ ~StartsWith(l, "Name:")
    /\ ~Contains(l, "Description:")

\* C9 as claimed: while the capture state is set, the next line that is
\* non-empty and does not start with 'Module' becomes the description and
\* resets the capture state, whatever else it contains.
C9_AsClaimed ==
    [][ (/\ InfoStepping
         /\ current_section = "description"
         /\ InfoLineNow # ""
         /\ ~StartsWith(InfoLineNow, "Module"))
        => /\ info'.description = InfoLineNow
           /\ current_section' = "None" ]_vars

\* C9 amended: while the capture state is set, a line that is non-empty, does
\* not start with 'Module' or 'Name:' and does not contain 'Description:'
\* becomes the description (also when it contains 'Rank:' or 'Platform:')
\* and resets the capture state; every other line leaves the capture state
\* set and the description as it was; and while the capture state is not
\* set no line changes the description.
C9_DescriptionCapture ==
    [][ InfoStepping =>
          /\ (current_section = "description" /\ Capturable(InfoLineNow))
               => /\ info'.description = InfoLineNow
                  /\ current_section' = "None"
          /\ (current_section = "description" /\ ~Capturable(InfoLineNow))
               => /\ info'.description = info.description
                  /\ current_section' = "description"
          /\ current_section # "description"
               => info'.description = info.description ]_vars

\* C9 witness: a 'Description:' line was followed by a line containing
\* 'Rank:', which became the description and reset the capture state, and a
\* later line was processed without overwriting it.
C9_Witness ==
    /\ info_pc = "returned"
    /\ Len(info_lines) > 3
    /\ Strip(info_lines[1]) = "Description:"
    /\ Contains(info_lines[2], "Rank:")
    /\ Strip(info_lines[3]) # ""
    /\ info.description = Strip(info_lines[2])
    /\ info.rank = ""
    /\ current_section = "None"

\* The line reaches the platform branch: no earlier branch of the chain
\* takes it.
ReachesPlatformBranch(l, section) ==
    /\ ~StartsWith(l, "Name:")
    /\ ~Contains(l, "Description:")
    /\ ~(section = "description" /\ l # "" /\ ~StartsWith(l, "Module"))
    /\ ~Contains(l, "Rank:")
    /\ Contains(l, "Platform:") \/ Contains(l, "Available targets:")

\* The non-empty trimmed comma-separated pieces of text.
CommaPieces(text) == StripNonEmpty(Split(text, ","), 1)

\* The text between the first ':' of l and its second ':' (the end of l when
\* there is no second one).
BetweenColons(l) ==
    LET c1 == ScanChar(l, ":", 1)
    IN  SubSeq(l, c1 + 1, ScanChar(l, ":", c1 + 1) - 1)

\* The whole text after the first ':' of l.
AfterFirstColon(l) == SubSeq(l, ScanChar(l, ":", 1) + 1, Len(l))

\* C10 as claimed: every line containing 'Platform:' or 'Available targets:'
\* appends to the platform list the pieces of all the text after its first ':'.
C10_AsClaimed ==
    [][ (/\ InfoStepping
         /\ \/ Contains(InfoLineNow, "Platform:")
            \/ Contains(InfoLineNow, "Available targets:"))
        => info'.platform =
             info.platform \o CommaPieces(AfterFirstColon(InfoLineNow)) ]_vars

\* C10 amended: a line that reaches the platform branch (it contains
\* 'Platform:' or 'Available targets:', does not start with 'Name:', does not
\* contain 'Description:' or 'Rank:' and is not taken as the description)
\* appends to the platform list the non-empty trimmed comma-separated pieces
\* of the text between its first and its second ':' (up to the end of the
\* line when there is no second ':'); every other line leaves the list as it
\* was, so the final list is the concatenation in line order.
C10_PlatformPieces ==
    [][ InfoStepping =>
          info'.platform =
            IF ReachesPlatformBranch(InfoLineNow, current_section)
            THEN info.platform \o CommaPieces(BetweenColons(InfoLineNow))
            ELSE info.platform ]_vars

\* C10 witness: two platform lines were read, the second with further ':'
\* characters; the list holds the pieces of the first followed by the piece
\* of the second that precedes its second ':'.
C10_Witness ==
    /\ info_pc = "returned"
    /\ Len(info_lines) > 2
    /\ info_lines[1] = "Platform: Windows, Linux"
    /\ info_lines[2] = "Available targets: 0: Auto, , 1:Win"
    /\ info.platform = << "Windows", "Linux", "0" >>

(***************************************************************************)
(* parse_module_list applied to listing texts (SpecList)                   *)
(***************************************************************************)

\* Bound: the number of lines of a listing text built line by line.
MaxListingLines == 3

\* Lines a listing text is made of.
ListingLineSamples ==
    { "Matching Modules",
      "================",
      "",
      "   #  Name  Disclosure Date  Rank",
      "   exploit/windows/smb/ms17_010  2017-03-14  excellent  EternalBlue",
      "   auxiliary/unrelated/foo        normal     Misc",
      "exploit/foo normal",
      "[*] exploit/a/b loaded",
      "No results from search" }

\* The listing of the example: a header, a separator, an empty line, an
\* exploit row and a row of another type.
ScenarioListing ==
    "Matching Modules\n================\n\n"
    \o "   exploit/windows/smb/ms17_010  2017-03-14  excellent  EternalBlue\n"
    \o "   auxiliary/unrelated/foo        normal     Misc\n"

\* The types parse_module_list is called with.
ModuleTypeSet == { module_types[i] : i \in 1..Len(module_types) }

ListInit == InfoIdle /\ ListIdle /\ FiltIdle /\ DrvIdle /\ tool = << >>

ListingLineCount == Len(Split(listing, "\n")) - 1

\* The console's answer grows by one line (before the call).
AppendListingLine ==
    /\ list_pc = "idle"
    /\ ListingLineCount < MaxListingLines
    /\ \E l \in ListingLineSamples : listing' = listing \o l \o "\n"
    /\ UNCHANGED << list_type, list_modules, list_pc >>
    /\ UNCHANGED << infoVars, filtVars, drvVars >>

\* The console answers with the listing of the example.
AppendScenarioListing ==
    /\ list_pc = "idle"
    /\ listing = ""
    /\ listing' = ScenarioListing
    /\ UNCHANGED << list_type, list_modules, list_pc >>
    /\ UNCHANGED << infoVars, filtVars, drvVars >>

\* Lines 54-76: parse_module_list(listing, t) is called and returns.
ParseCall ==
    /\ list_pc = "idle"
    /\ \E t \in ModuleTypeSet :
         /\ list_type' = t
         /\ list_modules' = parse_module_list(listing, t)
    /\ list_pc' = "returned"
    /\ UNCHANGED listing
    /\ UNCHANGED << infoVars, filtVars, drvVars >>

ListNext == AppendListingLine \/ AppendScenarioListing \/ ParseCall

SpecList == ListInit /\ [][ListNext]_vars

\* The first whitespace-delimited tokens of the lines of text.
FirstTokens(text) ==
    { SplitWs(Split(text, "\n")[i])[1] :
        i \in { j \in 1..Len(Split(text, "\n")) :
                  Strip(Split(text, "\n")[j]) # "" } }

\* C2 as claimed: every identifier parse_module_list returns contains '/'.
C2_AsClaimed ==
    list_pc = "returned" =>
        \A i \in 1..Len(list_modules) : Contains(list_modules[i], "/")

\* C2 amended: every identifier parse_module_list returns is the first token
\* of a line of the listing, a token that contains '/', either as it stands
\* or with its leading '<module_type>/' removed; the identifier itself
\* contains '/' unless it is such a remainder.
C2_TokenHasSlash ==
    list_pc = "returned" =>
        \A i \in 1..Len(list_modules) :
            LET m == list_modules[i]
            IN  /\ \E tok \in FirstTokens(listing) :
                     /\ Contains(tok, "/")
                     /\ tok = m \/ tok = list_type \o "/" \o m
                /\ \/ Contains(m, "/")
                   \/ list_type \o "/" \o m \in FirstTokens(listing)

\* C2 witness: parse_module_list returned, from the row 'exploit/foo' and
\* the type exploit, the identifier 'foo', next to one that contains '/'.
C2_Witness ==
    /\ list_pc = "returned"
    /\ list_type = "exploit"
    /\ \E i \in 1..Len(list_modules) : list_modules[i] = "foo"
    /\ \E i \in 1..Len(list_modules) : Contains(list_modules[i], "/")

\* C3 as claimed: for the listing of the example and the type exploit the
\* result is ['windows/smb/ms17_010'].
C3_AsClaimed ==
    (list_pc = "returned" /\ listing = ScenarioListing /\ list_type = "exploit")
        => list_modules = << "windows/smb/ms17_010" >>

\* C3 amended: for the listing of the example and the type exploit the
\* result is ['windows/smb/ms17_010', 'auxiliary/unrelated/foo']: the exploit
\* row loses its 'exploit/' prefix and the row of the other type contributes
\* its first token unchanged.
C3_ScenarioResult ==
    (list_pc = "returned" /\ listing = ScenarioListing /\ list_type = "exploit")
        => list_modules = << "windows/smb/ms17_010", "auxiliary/unrelated/foo" >>

\* C3 witness: parse_module_list has returned for the listing of the example
\* and the type exploit.
C3_Witness ==
    /\ list_pc = "returned"
    /\ listing = ScenarioListing
    /\ list_type = "exploit"
    /\ Len(list_modules) = 2

(***************************************************************************)
(* The filters and organize_modules_by_category applied to lists (SpecFilter)*)
(***************************************************************************)

\* Bound: the number of steps that build an input list.
MaxBuildSteps == 3

\* Bound: the number of copies of an identifier one AppendRun step appends.
RunLength == 26

\* Identifiers an input list is made of.
ModuleSamples ==
    { "scanner/HTTP/foo", "scanner/bar", "plain", "other/ftp", "windows/misc" }

\* Identifiers appended RunLength at a time.
RunSamples == { "scanner/HTTP/foo", "scanner/bar" }

FilterInit == InfoIdle /\ ListIdle /\ FiltIdle /\ DrvIdle /\ tool = << >>

\* The caller's list grows by one identifier.
AppendModule ==
    /\ filt_call = "none"
    /\ filt_steps < MaxBuildSteps
    /\ \E m \in ModuleSamples : filt_modules' = Append(filt_modules, m)
    /\ filt_steps' = filt_steps + 1
    /\ UNCHANGED << filt_call, filt_result >>
    /\ UNCHANGED << infoVars, listVars, drvVars >>

\* The caller's list grows by RunLength copies of one identifier.
AppendRun ==
    /\ filt_call = "none"
    /\ filt_steps < MaxBuildSteps
    /\ \E m \in RunSamples :
         filt_modules' = filt_modules \o [i \in 1..RunLength |-> m]
    /\ filt_steps' = filt_steps + 1
    /\ UNCHANGED << filt_call, filt_result >>
    /\ UNCHANGED << infoVars, listVars, drvVars >>

\* Lines 130-137.
CallFilterExploitsPayloads ==
    /\ filt_call = "none"
    /\ filt_call' = "filter_exploits_payloads"
    /\ filt_result' = filter_exploits_payloads(filt_modules)
    /\ UNCHANGED << filt_modules, filt_steps >>
    /\ UNCHANGED << infoVars, listVars, drvVars >>

\* Lines 140-149.
CallFilterAuxiliary ==
    /\ filt_call = "none"
    /\ filt_call' = "filter_auxiliary"
    /\ filt_result' = filter_auxiliary(filt_modules)
    /\ UNCHANGED << filt_modules, filt_steps >>
    /\ UNCHANGED << infoVars, listVars, drvVars >>

\* Lines 152-164.
CallOrganize ==
    /\ filt_call = "none"
    /\ filt_call' = "organize_modules_by_category"
    /\ filt_result' = organize_modules_by_category(filt_modules)
    /\ UNCHANGED << filt_modules, filt_steps >>
    /\ UNCHANGED << infoVars, listVars, drvVars >>

FilterNext ==
    \/ AppendModule
    \/ AppendRun
    \/ CallFilterExploitsPayloads
    \/ CallFilterAuxiliary
    \/ CallOrganize

SpecFilter == FilterInit /\ [][FilterNext]_vars

\* The lowercased identifier contains a TOP_SERVICES keyword.
MatchesService(m) ==
    \E k \in { TOP_SERVICES[i] : i \in 1..Len(TOP_SERVICES) } :
        Contains(Lower(m), k)

\* The lowercased identifier contains a TOP_TECHNOLOGIES keyword.
MatchesTechnology(m) ==
    \E k \in { TOP_TECHNOLOGIES[i] : i \in 1..Len(TOP_TECHNOLOGIES) } :
        Contains(Lower(m), k)

Min(a, b) == IF a <= b THEN a ELSE b

\* C4: filter_auxiliary returns min(50, m) identifiers, m the number of input
\* identifiers that match a TOP_SERVICES keyword, and they are the first
\* min(50, m) matching identifiers in input order.
C4_AuxiliaryFirstFifty ==
    filt_call = "filter_auxiliary" =>
        LET m == Cardinality({ i \in 1..Len(filt_modules) :
                                 MatchesService(filt_modules[i]) })
        IN  /\ Len(filt_result) = Min(50, m)
            /\ filt_result =
                 SubSeq(SelectSeq(filt_modules, MatchesService), 1, Min(50, m))

\* C4 witness: filter_auxiliary returned 50 identifiers for an input with
\* more than 50 matches that has a non-matching identifier among its first 50.
C4_Witness ==
    /\ filt_call = "filter_auxiliary"
    /\ Len(SelectSeq(filt_modules, MatchesService)) > 50
    /\ \E i \in 1..50 : ~MatchesService(filt_modules[i])
    /\ Len(filt_result) = 50

\* The category of an identifier: the text before its first '/', 'other'
\* when it has none.
CategoryOf(m) ==
    IF Contains(m, "/") THEN SubSeq(m, 1, ScanChar(m, "/", 1) - 1) ELSE "other"

\* The sum of the lengths of the lists of a dict.
RECURSIVE SumLens(_, _)
SumLens(d, keys) ==
    IF keys = {} THEN 0
    ELSE LET k == CHOOSE c \in keys : TRUE
         IN  Len(d[k]) + SumLens(d, keys \ {k})

\* C5: the category lists of organize_modules_by_category together hold as
\* many identifiers as the input; the categories are those of the input
\* identifiers, and each category's list is the input restricted to the
\* identifiers of that category, unmodified, duplicates included, in order.
C5_OrganizeLossless ==
    filt_call = "organize_modules_by_category" =>
        /\ SumLens(filt_result, DOMAIN filt_result) = Len(filt_modules)
        /\ DOMAIN filt_result =
             { CategoryOf(filt_modules[i]) : i \in 1..Len(filt_modules) }
        /\ \A c \in DOMAIN filt_result :
             LET InCategory(m) == CategoryOf(m) = c
             IN  filt_result[c] = SelectSeq(filt_modules, InCategory)

\* C5 witness: organize_modules_by_category returned for an input with a
\* duplicate, an identifier without '/' and an identifier whose first segment
\* is 'other'.
C5_Witness ==
    /\ filt_call = "organize_modules_by_category"
    /\ filt_modules = << "other/ftp", "plain", "other/ftp" >>
    /\ filt_result["other"] = << "other/ftp", "plain", "other/ftp" >>

(***************************************************************************)
(* enumerate_all_modules as a process (Spec)                               *)
(***************************************************************************)

\* Bound: the number of rows of the long listing.
BulkRows == 56

\* Bound: every BulkGap-th row of the long listing matches no keyword.
BulkGap == 10

\* str(d) for one decimal digit.
Digit(d) ==
    CASE d = 0 -> "0" [] d = 1 -> "1" [] d = 2 -> "2" [] d = 3 -> "3"
      [] d = 4 -> "4" [] d = 5 -> "5" [] d = 6 -> "6" [] d = 7 -> "7"
      [] d = 8 -> "8" [] OTHER -> "9"

\* str(n) for a natural number.
RECURSIVE Digits(_)
Digits(n) == IF n < 10 THEN Digit(n) ELSE Digits(n \div 10) \o Digit(n % 10)

\* A short answer of the console to 'search type:<t>': a banner, a table
\* header, and four rows of type t.
SmallListing(t) ==
    "Matching Modules\n================\n\n"
    \o "   Name  Disclosure Date  Rank\n   ----  ----\n"
    \o "   " \o t \o "/windows/smb/a  2017-03-14  normal\n"
    \o "   " \o t \o "/scanner/FTP/b  good\n"
    \o "   " \o t \o "/misc/c  low\n"
    \o "   " \o t \o "/single  normal\n"
    \o "[*] done\n"

\* Rows lo..hi of a long answer: rows of type t, every BulkGap-th one
\* matching no keyword, the others matching 'http'.
RECURSIVE BulkRowsOf(_, _, _)
BulkRowsOf(t, lo, hi) ==
    IF lo > hi THEN ""
    ELSE IF lo = hi
    THEN "  " \o t
         \o (IF lo % BulkGap = 0 THEN "/misc/m" ELSE "/http/m") \o Digits(lo)
         \o " x\n"
    ELSE BulkRowsOf(t, lo, (lo + hi) \div 2)
         \o BulkRowsOf(t, ((lo + hi) \div 2) + 1, hi)

BulkListing(t) == BulkRowsOf(t, 1, BulkRows)

\* What the console prints for 'search type:<module_types[i]>' in
\* installation k: short, long or nothing, by turns.
ToolOutput(k, i) ==
    CASE (i + k) % 3 = 0 -> SmallListing(module_types[i])
      [] (i + k) % 3 = 1 -> BulkListing(module_types[i])
      [] OTHER -> ""

\* The console installations the script is run against.
ToolProfiles ==
    { [i \in 1..Len(module_types) |-> ToolOutput(k, i)] : k \in 0..2 }

Init ==
    /\ InfoIdle /\ ListIdle /\ FiltIdle /\ DrvIdle
    /\ tool \in ToolProfiles

\* Lines 182-205: one iteration of the loop.  The search command is run
\* once and ends in one of the three ways; the rest is EnumerateOne.
EnumerateType ==
    /\ drv_pc = "loop"
    /\ drv_pos <= Len(module_types)
    /\ \E kind \in OutcomeKinds :
         LET module_type == module_types[drv_pos]
             output == run_msfconsole_command(kind, tool[drv_pos])
             r == EnumerateOne(result, module_type, output)
         IN  /\ result' = r.result
             /\ parsed_modules' = DictSet(parsed_modules, module_type, r.parsed)
             /\ filtered_modules' =
                  DictSet(filtered_modules, module_type, r.modules)
             /\ invocations' =
                  Append(invocations, "search type:" \o module_type)
             /\ outcomes' = Append(outcomes, kind)
    /\ drv_pos' = drv_pos + 1
    /\ UNCHANGED << tool, drv_pc >>
    /\ UNCHANGED << infoVars, listVars, filtVars >>

\* Lines 207-211: the timestamp is set and result is returned.
EnumerateReturn ==
    /\ drv_pc = "loop"
    /\ drv_pos > Len(module_types)
    /\ result' = [result EXCEPT !.metadata.generated_at = "utcnow"]
    /\ drv_pc' = "returned"
    /\ UNCHANGED << tool, drv_pos, invocations, outcomes, parsed_modules,
                    filtered_modules >>
    /\ UNCHANGED << infoVars, listVars, filtVars >>

Next == EnumerateType \/ EnumerateReturn

Spec == Init /\ [][Next]_vars

\* The types whose iteration is over.
ProcessedTypes == { module_types[i] : i \in 1..(drv_pos - 1) }

\* The sum of the values of a dict of numbers.
RECURSIVE SumValues(_, _)
SumValues(d, keys) ==
    IF keys = {} THEN 0
    ELSE LET k == CHOOSE c \in keys : TRUE
         IN  d[k] + SumValues(d, keys \ {k})

\* C1: after every iteration, by_type holds for each processed type the
\* length of its filtered list, and total_modules is the sum of the by_type
\* values recorded so far.
C1_CountsAreFilteredLengths ==
    /\ DOMAIN result.metadata.by_type = ProcessedTypes
    /\ \A t \in ProcessedTypes :
         result.metadata.by_type[t] = Len(filtered_modules[t])
    /\ result.metadata.total_modules =
         SumValues(result.metadata.by_type, DOMAIN result.metadata.by_type)

\* C1 witness: the report is returned, and for payload and for auxiliary the
\* count is the length of the filtered list and less than the length of the
\* parsed list.
C1_Witness ==
    /\ drv_pc = "returned"
    /\ result.metadata.by_type["payload"] = Len(filtered_modules["payload"])
    /\ Len(filtered_modules["payload"]) > 0
    /\ Len(filtered_modules["payload"]) < Len(parsed_modules["payload"])
    /\ result.metadata.by_type["auxiliary"] = 50
    /\ Len(parsed_modules["auxiliary"]) > 50
    /\ result.metadata.total_modules > 50

\* For each console installation, the entries of the seven types in a run in
\* which no command fails: the category mapping and the count of each.
NoFailureEntries ==
    [ p \in ToolProfiles |->
        [ i \in 1..Len(module_types) |->
            LET kept == ApplyFilter(module_types[i],
                                    parse_module_list(p[i], module_types[i]))
            IN  [ modules |-> organize_modules_by_category(kept),
                  count |-> Len(kept) ] ] ]

NoFailureModules(i) == NoFailureEntries[tool][i].modules

NoFailureCount(i) == NoFailureEntries[tool][i].count

\* C6: whichever commands fail, the commands issued are the searches for the
\* seven types in the fixed order, one each (the loop position never leaves
\* the list and the report is returned only after the seventh); the returned
\* report has an entry for all seven types; a failed type has count 0 and an
\* empty category mapping; the entry of a type that did not fail is what it
\* is in a run in which no command fails.
C6_FailuresAreIsolated ==
    /\ drv_pos \in 1..(Len(module_types) + 1)
    /\ invocations = [i \in 1..(drv_pos - 1) |-> "search type:" \o module_types[i]]
    /\ Len(outcomes) = drv_pos - 1
    /\ DOMAIN result.modules = ProcessedTypes
    /\ DOMAIN result.metadata.by_type = ProcessedTypes
    /\ drv_pc = "returned" => ProcessedTypes = ModuleTypeSet
    /\ \A i \in 1..(drv_pos - 1) :
         IF outcomes[i] # "completed"
         THEN /\ result.metadata.by_type[module_types[i]] = 0
              /\ DOMAIN result.modules[module_types[i]] = {}
         ELSE /\ result.metadata.by_type[module_types[i]] = NoFailureCount(i)
              /\ result.modules[module_types[i]] = NoFailureModules(i)

\* C6 witness: the report is returned after a run in which a command timed
\* out, another failed otherwise and another completed, where the failed
\* commands would have printed rows and the completed one did.
C6_Witness ==
    /\ drv_pc = "returned"
    /\ \E i, j, k \in 1..Len(module_types) :
         /\ outcomes[i] = "timeout" /\ NoFailureCount(i) > 0
         /\ outcomes[j] = "error" /\ NoFailureCount(j) > 0
         /\ i < k
         /\ outcomes[k] = "completed"
         /\ result.metadata.by_type[module_types[k]] > 0

\* xs is a prefix of ys.
IsPrefix(xs, ys) == Len(xs) <= Len(ys) /\ xs = SubSeq(ys, 1, Len(xs))

\* C8: for exploit and payload the filtered list is the parsed identifiers
\* that match a TOP_TECHNOLOGIES keyword, all of them, in order; for encoder,
\* evasion, nop and post it is the parsed list; for auxiliary it is a prefix
\* of the matching identifiers in order; and the filtered list is what is
\* categorized.
C8_FilterPolicies ==
    \A t \in ProcessedTypes :
        /\ t \in {"exploit", "payload"} =>
             filtered_modules[t] = SelectSeq(parsed_modules[t], MatchesTechnology)
        /\ t \in {"encoder", "evasion", "nop", "post"} =>
             filtered_modules[t] = parsed_modules[t]
        /\ t = "auxiliary" =>
             IsPrefix(filtered_modules[t],
                      SelectSeq(parsed_modules[t], MatchesService))
        /\ SumLens(result.modules[t], DOMAIN result.modules[t]) =
             Len(filtered_modules[t])

\* C8 witness: the report is returned with more than 50 exploit identifiers
\* kept out of a longer parsed list, and with a post list that has
\* identifiers matching no keyword and is kept whole.
C8_Witness ==
    /\ drv_pc = "returned"
    /\ Len(filtered_modules["exploit"]) > 50
    /\ Len(filtered_modules["exploit"]) < Len(parsed_modules["exploit"])
    /\ Len(parsed_modules["post"]) > 0
    /\ \E i \in 1..Len(parsed_modules["post"]) :
         ~MatchesTechnology(parsed_modules["post"][i])
    /\ filtered_modules["post"] = parsed_modules["post"]

====
